---- MODULE Spec2Model ----
(***************************************************************************)
(* Model of performer_selector (main.py): PerformerSelector scans the      *)
(* configured root directories for direct subfolders, builds a name->path  *)
(* dictionary and loops on an interactive prompt until an existing         *)
(* directory is chosen or the user interrupts.                             *)
(*                                                                         *)
(* Text is a sequence of one-character strings.  A Path is the sequence of *)
(* its parts (anchor "/" first), as pathlib keeps it.                      *)
(***************************************************************************)
EXTENDS Integers, Sequences, FiniteSets, TLC

VARIABLES
    performers_root_directories, \* self.performers_root_directories
    return_full_path,            \* self.return_full_path
    fs,                          \* the filesystem the program reads
    pc,                          \* where control is
    callee,                      \* the method of main() that is running / has ended
    root_idx,                    \* position of the for loop of get_performer_paths
    performers_paths,            \* the list accumulated by get_performer_paths
    subfolders_log,              \* what _get_direct_subfolders returned, per processed root
    performers_dict,             \* the dict built by choose_performer
    user_input,                  \* the stripped text of the last submission
    printed,                     \* the last message printed
    result,                      \* the value returned by choose_performer
    exception,                   \* the exception that left the program uncaught
    exit_status                  \* the status passed to exit()

vars == <<performers_root_directories, return_full_path, fs, pc, callee, root_idx,
          performers_paths, subfolders_log, performers_dict, user_input, printed,
          result, exception, exit_status>>

----------------------------------------------------------------------------
(* Bounds *)

MaxRoots == 3      \* longest configured list of root directories
MaxFill == 2       \* the validator is tried on lengths up to limit + MaxFill

----------------------------------------------------------------------------
(* Text *)

ascii_lowercase == <<"a", "b", "c", "d", "e", "f", "g", "h", "i", "j", "k", "l", "m", "n", "o", "p", "q", "r", "s", "t", "u", "v", "w", "x", "y", "z">>
ascii_uppercase == <<"A", "B", "C", "D", "E", "F", "G", "H", "I", "J", "K", "L", "M", "N", "O", "P", "Q", "R", "S", "T", "U", "V", "W", "X", "Y", "Z">>
ascii_letters == ascii_lowercase \o ascii_uppercase
digits == <<"0", "1", "2", "3", "4", "5", "6", "7", "8", "9">>

Range(s) == {s[i] : i \in 1..Len(s)}

\* __init__: set(string.ascii_letters + string.digits + " .()_[]-")
allowed_characters == Range(ascii_letters \o digits \o <<" ", ".", "(", ")", "_", "[", "]", "-">>)

\* __init__: self.performer_length_limit = 100
performer_length_limit == 100

\* what str.strip() removes
Whitespace == {" ", "\t", "\n", "\r", "\f"}

\* str.strip(): what lies between the first and the last non-whitespace character
Strip(s) ==
    IF \A i \in 1..Len(s) : s[i] \in Whitespace THEN <<>>
    ELSE LET first == CHOOSE i \in 1..Len(s) :
                          s[i] \notin Whitespace /\ \A j \in 1..(i - 1) : s[j] \in Whitespace
             last == CHOOSE i \in 1..Len(s) :
                          s[i] \notin Whitespace /\ \A j \in (i + 1)..Len(s) : s[j] \in Whitespace
         IN  SubSeq(s, first, last)

Fill(c, n) == [i \in 1..n |-> c]

----------------------------------------------------------------------------
(* pathlib *)

Sep == "/"

\* the segments of s between separators, empty ones included
SplitSep(s) ==
    LET cuts == {0} \cup {i \in 1..Len(s) : s[i] = Sep} \cup {Len(s) + 1}
        Cut(k) == CHOOSE c \in cuts : Cardinality({b \in cuts : b < c}) = k - 1
    IN  [k \in 1..(Cardinality(cuts) - 1) |-> SubSeq(s, Cut(k) + 1, Cut(k + 1) - 1)]

KeepPart(seg) == seg # <<>> /\ seg # <<".">>

\* the parts of one path argument: anchor first, empty and "." segments dropped
ParseParts(s) ==
    LET segs == SplitSep(s)
        kept == SelectSeq(segs, KeepPart)
    IN  IF s # <<>> /\ s[1] = Sep THEN <<<<Sep>>>> \o kept ELSE kept

IsAbsolute(parts) == parts # <<>> /\ parts[1] = <<Sep>>

\* Path(a, b): an absolute later argument replaces what came before
PathJoin(a, b) ==
    LET pb == ParseParts(b)
    IN  IF IsAbsolute(pb) THEN pb ELSE ParseParts(a) \o pb

\* Path(s)
PathOfStr(s) == ParseParts(s)

RECURSIVE JoinParts(_)
JoinParts(parts) ==
    IF parts = <<>> THEN <<>>
    ELSE IF Len(parts) = 1 THEN parts[1]
    ELSE parts[1] \o <<Sep>> \o JoinParts(Tail(parts))

\* str(path)
StrOfPath(p) ==
    IF p = <<>> THEN <<".">>
    ELSE IF IsAbsolute(p) THEN <<Sep>> \o JoinParts(Tail(p))
    ELSE JoinParts(p)

\* path.name
PathName(p) ==
    IF p = <<>> \/ (IsAbsolute(p) /\ Len(p) = 1) THEN <<>> ELSE p[Len(p)]

\* path.parent
PathParent(p) ==
    IF p = <<>> \/ (IsAbsolute(p) /\ Len(p) = 1) THEN p ELSE SubSeq(p, 1, Len(p) - 1)

----------------------------------------------------------------------------
(* The filesystem *)

R1 == <<"/", "r", "1">>            \* a readable directory
R2 == <<"/", "r", "2">>            \* a readable directory
NotDirRoot == <<"/", "n", "d">>    \* a regular file
DeniedRoot == <<"/", "p", "d">>    \* a directory whose listing is denied
BrokenRoot == <<"/", "i", "o">>    \* a directory whose listing fails with an I/O error

RootDirs == {R1, R2, NotDirRoot, DeniedRoot, BrokenRoot}

Sam == <<"S", "a", "m">>
BadName == <<"B", "@">>
BlankName == <<" ", " ">>
LongName == Fill("x", performer_length_limit + 1)
Notes == <<"n", "o", "t", "e", "s">>
Lnk == <<"l", "n", "k">>

EntryNames == {Sam, BadName, BlankName, LongName, Notes, Lnk}

\* what a stat of each root finds, and what os.listdir of it raises ("ok": it returns)
RootStat(r) == IF r = NotDirRoot THEN "file" ELSE "dir"
RootListing(r) ==
    CASE r = NotDirRoot -> "NotADirectoryError"
      [] r = DeniedRoot -> "PermissionError"
      [] r = BrokenRoot -> "OSError"
      [] OTHER -> "ok"

\* the entries of the readable roots when the program starts
InitialFs ==
    [r \in {R1, R2} |->
        IF r = R1
        THEN [n \in EntryNames |->
                 CASE n = Sam -> "dir" [] n = BadName -> "dir"
                   [] n = Lnk -> "link" [] n = Notes -> "file"
                   [] OTHER -> "absent"]
        ELSE [n \in EntryNames |->
                 CASE n = Sam -> "dir" [] n = BlankName -> "dir"
                   [] n = LongName -> "dir" [] OTHER -> "absent"]]

\* the performer directories that come and go while the prompt waits
Volatile == {Sam}

\* what a stat of the path finds: "dir", "file", "link" (a link to a directory) or "absent"
KindOf(f, parts) ==
    IF \E r \in RootDirs : ParseParts(r) = parts
    THEN RootStat(CHOOSE r \in RootDirs : ParseParts(r) = parts)
    ELSE IF \E r \in DOMAIN f : /\ ParseParts(r) = PathParent(parts)
                                /\ PathName(parts) \in DOMAIN f[r]
    THEN f[CHOOSE r \in DOMAIN f : ParseParts(r) = PathParent(parts)][PathName(parts)]
    ELSE "absent"

\* os.path.join(a, b)
OsPathJoin(a, b) ==
    IF b # <<>> /\ b[1] = Sep THEN b
    ELSE IF a = <<>> \/ a[Len(a)] = Sep THEN a \o b
    ELSE a \o <<Sep>> \o b

\* os.path.isdir(s): follows links, never raises
OsPathIsDir(f, s) == KindOf(f, ParseParts(s)) \in {"dir", "link"}

\* Path.exists() and Path.is_dir()
PathExists(f, p) == KindOf(f, p) # "absent"
PathIsDir(f, p) == KindOf(f, p) \in {"dir", "link"}

\* a sequence backwards
Reverse(s) == [i \in 1..Len(s) |-> s[Len(s) + 1 - i]]

\* one enumeration of every entry name
EntryOrder == <<BadName, BlankName, LongName, Lnk, Notes, Sam>>

\* the orders in which os.listdir(root) may enumerate the entries of a listable
\* directory: no order is promised; an order and its reverse are tried
ListDirOrders(f, root) ==
    IF root \notin DOMAIN f \/ RootListing(root) # "ok" THEN {<<>>}
    ELSE LET IsPresent(n) == f[root][n] # "absent"
             listing == SelectSeq(EntryOrder, IsPresent)
         IN  {listing, Reverse(listing)}

\* the exception os.listdir(root) raises, "none" when it returns
ListDirError(f, root) == IF RootListing(root) = "ok" THEN "none" ELSE RootListing(root)

\* the exception classes and their bases
Bases(exc) ==
    CASE exc = "PermissionError" -> {"PermissionError", "OSError", "Exception"}
      [] exc = "FileNotFoundError" -> {"FileNotFoundError", "OSError", "Exception"}
      [] exc = "NotADirectoryError" -> {"NotADirectoryError", "OSError", "Exception"}
      [] exc = "OSError" -> {"OSError", "Exception"}
      [] exc = "ValueError" -> {"ValueError", "Exception"}
      [] OTHER -> {exc}

IsInstance(exc, cls) == cls \in Bases(exc)

----------------------------------------------------------------------------
(* Directory scanner *)

\* _is_junction: bool(os.readlink(path)), False when readlink raises OSError
IsJunction(f, s) == KindOf(f, ParseParts(s)) = "link"

\* the try block of _get_direct_subfolders
SubfoldersTry(f, root_path, listing) ==
    IF ~OsPathIsDir(f, root_path) THEN [exc |-> "ValueError", value |-> <<>>]
    ELSE IF ListDirError(f, root_path) # "none"
    THEN [exc |-> ListDirError(f, root_path), value |-> <<>>]
    ELSE LET IsSubfolder(name) ==
                 /\ OsPathIsDir(f, OsPathJoin(root_path, name))
                 /\ ~IsJunction(f, OsPathJoin(root_path, name))
         IN  [exc |-> "none", value |-> SelectSeq(listing, IsSubfolder)]

\* wrong except clauses: only PermissionError is caught
SubfoldersExcept_NoOSError(exc) ==
    IF IsInstance(exc, "PermissionError")
    THEN [raised |-> "none", value |-> <<>>, printed |-> "Permission error accessing"]
    ELSE [raised |-> exc, value |-> <<>>, printed |-> ""]

\* the except clauses of _get_direct_subfolders, in order
SubfoldersExcept(exc) ==
    IF IsInstance(exc, "PermissionError")
    THEN [raised |-> "none", value |-> <<>>, printed |-> "Permission error accessing"]
    ELSE IF IsInstance(exc, "OSError")
    THEN [raised |-> "none", value |-> <<>>, printed |-> "Error accessing"]
    ELSE [raised |-> exc, value |-> <<>>, printed |-> ""]

\* _get_direct_subfolders(root_path), os.listdir enumerating in the order listing
GetDirectSubfolders(f, root_path, listing) ==
    LET t == SubfoldersTry(f, root_path, listing)
    IN  IF t.exc = "none" THEN [raised |-> "none", value |-> t.value, printed |-> ""]
        ELSE SubfoldersExcept(t.exc)

\* [Path(root_dir, performer) for performer in performers]
PathsUnder(root_dir, performers) ==
    [i \in 1..Len(performers) |-> PathJoin(root_dir, performers[i])]

\* a wrong Extend: a name already collected is dropped
Extend_Dedup(paths, more) ==
    LET IsNew(p) == \A i \in 1..Len(paths) : PathName(paths[i]) # PathName(p)
    IN  paths \o SelectSeq(more, IsNew)

\* performers_paths.extend(...)
Extend(paths, more) == paths \o more

----------------------------------------------------------------------------
(* Name validator *)

\* a wrong validator: the length limit is off by one
IsValidPerformerName_OffByOne(name) ==
    IF name = <<>>
    THEN [ok |-> FALSE, printed |-> "Error: Please enter a performer name."]
    ELSE IF ~(\A i \in 1..Len(name) : name[i] \in allowed_characters)
    THEN [ok |-> FALSE, printed |-> "Error: Performer name contains invalid characters."]
    ELSE IF Len(name) >= performer_length_limit
    THEN [ok |-> FALSE, printed |-> "Error: Performer name is too long. Please enter a shorter name."]
    ELSE [ok |-> TRUE, printed |-> ""]

\* _is_valid_performer_name(name): the checks in order, the first failing one prints
IsValidPerformerName(name) ==
    IF name = <<>>
    THEN [ok |-> FALSE, printed |-> "Error: Please enter a performer name."]
    ELSE IF ~(\A i \in 1..Len(name) : name[i] \in allowed_characters)
    THEN [ok |-> FALSE, printed |-> "Error: Performer name contains invalid characters."]
    ELSE IF Len(name) > performer_length_limit
    THEN [ok |-> FALSE, printed |-> "Error: Performer name is too long. Please enter a shorter name."]
    ELSE [ok |-> TRUE, printed |-> ""]

----------------------------------------------------------------------------
(* Interactive selector *)

None == <<"None">>

NoResult == [kind |-> "none", value |-> <<>>]

\* a wrong DictPut: the first entry with a name is kept
DictPut_FirstWins(d, k, v) == d @@ (k :> v)

\* one step of the dict comprehension: a later entry with the same name overwrites
DictPut(d, k, v) == (k :> v) @@ d

\* {performer.name: str(performer) for performer in performers_paths}
RECURSIVE BuildDict(_, _)
BuildDict(paths, d) ==
    IF paths = <<>> THEN d
    ELSE BuildDict(Tail(paths), DictPut(d, PathName(Head(paths)), StrOfPath(Head(paths))))

\* performers_dict.get(key)
DictGet(d, key) == IF key \in DOMAIN d THEN d[key] ELSE None

\* a wrong Truthy: a missing key is not noticed
Truthy_Always(x) == TRUE

\* truth value of chosen_path
Truthy(x) == x # None /\ x # <<>>

\* the texts the prompt may hand back, before strip()
Zed == <<"Z", "e", "d">>
Inputs ==
    { Sam, <<" ">> \o Sam \o <<"\t">>, BlankName, BadName, LongName, Zed }

\* a wrong ReturnValue: the flag read the other way round
ReturnValue_Swapped(full, chosen_path_obj) ==
    IF full THEN [kind |-> "str", value |-> PathName(chosen_path_obj)]
    ELSE [kind |-> "Path", value |-> chosen_path_obj]

\* chosen_path_obj if self.return_full_path else chosen_path_obj.name
ReturnValue(full, chosen_path_obj) ==
    IF full THEN [kind |-> "Path", value |-> chosen_path_obj]
    ELSE [kind |-> "str", value |-> PathName(chosen_path_obj)]

\* a wrong Resolve: the directory is not looked at
Resolve_Unchecked(f, full, chosen_path) ==
    [returned |-> TRUE, value |-> ReturnValue(full, PathOfStr(chosen_path)), printed |-> ""]

\* the branch taken for a name found in the dict
Resolve(f, full, chosen_path) ==
    LET chosen_path_obj == PathOfStr(chosen_path)
    IN  IF PathExists(f, chosen_path_obj) /\ PathIsDir(f, chosen_path_obj)
        THEN [returned |-> TRUE, value |-> ReturnValue(full, chosen_path_obj), printed |-> ""]
        ELSE [returned |-> FALSE, value |-> NoResult,
              printed |-> "Error: The selected performer directory does not exist."]

\* the body of the while loop for one text handed back by prompt()
LoopBody(f, d, full, text) ==
    LET input == Strip(text)
        valid == IsValidPerformerName(input)
        chosen_path == DictGet(d, input)
        resolved == Resolve(f, full, chosen_path)
    IN  IF ~valid.ok
        THEN [returned |-> FALSE, value |-> NoResult, printed |-> valid.printed, input |-> input]
        ELSE IF Truthy(chosen_path)
        THEN [returned |-> resolved.returned, value |-> resolved.value,
              printed |-> resolved.printed, input |-> input]
        ELSE [returned |-> FALSE, value |-> NoResult,
              printed |-> "Error: Invalid choice. Please choose a valid performer.",
              input |-> input]

----------------------------------------------------------------------------
(* The program *)

\* the configured lists: up to MaxRoots roots, each named once
RootLists ==
    {l \in UNION {[1..n -> RootDirs] : n \in 0..MaxRoots} :
        \A i, j \in 1..Len(l) : l[i] = l[j] => i = j}

Init ==
    /\ performers_root_directories \in RootLists
    /\ return_full_path \in BOOLEAN
    /\ fs = InitialFs
    /\ pc = "Scanning"
    /\ callee = "get_performer_paths"
    /\ root_idx = 1
    /\ performers_paths = <<>>
    /\ subfolders_log = <<>>
    /\ performers_dict = <<>>
    /\ user_input = <<>>
    /\ printed = ""
    /\ result = NoResult
    /\ exception = "none"
    /\ exit_status = 0

\* one iteration of the for loop of get_performer_paths
ScanRoot ==
    /\ pc = "Scanning"
    /\ root_idx <= Len(performers_root_directories)
    /\ LET root_dir == performers_root_directories[root_idx]
       IN  \E listing \in ListDirOrders(fs, root_dir) :
             LET performers == GetDirectSubfolders(fs, root_dir, listing)
             IN  IF performers.raised # "none"
                 THEN /\ pc' = "Uncaught"
                      /\ exception' = performers.raised
                      /\ UNCHANGED <<root_idx, performers_paths, subfolders_log, printed>>
                 ELSE /\ performers_paths' =
                             Extend(performers_paths, PathsUnder(root_dir, performers.value))
                      /\ subfolders_log' = Append(subfolders_log, performers.value)
                      /\ root_idx' = root_idx + 1
                      /\ printed' = IF performers.printed # "" THEN performers.printed ELSE printed
                      /\ UNCHANGED <<pc, exception>>
    /\ UNCHANGED <<performers_root_directories, return_full_path, fs, callee,
                   performers_dict, user_input, result, exit_status>>

\* get_performer_paths returns; main calls choose_performer, which builds the dict
ChoosePerformer ==
    /\ pc = "Scanning"
    /\ root_idx > Len(performers_root_directories)
    /\ performers_dict' = BuildDict(performers_paths, <<>>)
    /\ callee' = "choose_performer"
    /\ pc' = "Prompting"
    /\ UNCHANGED <<performers_root_directories, return_full_path, fs, root_idx,
                   performers_paths, subfolders_log, user_input, printed, result,
                   exception, exit_status>>

\* prompt() returns a text: strip, validate, resolve
Submit ==
    /\ pc = "Prompting"
    /\ \E text \in Inputs :
         LET out == LoopBody(fs, performers_dict, return_full_path, text)
         IN  /\ user_input' = out.input
             /\ printed' = out.printed
             /\ result' = out.value
             /\ pc' = IF out.returned THEN "Accepted" ELSE "Prompting"
    /\ UNCHANGED <<performers_root_directories, return_full_path, fs, callee, root_idx,
                   performers_paths, subfolders_log, performers_dict, exception,
                   exit_status>>

\* prompt() raises KeyboardInterrupt: print, exit(1)
Interrupt ==
    /\ pc = "Prompting"
    /\ printed' = "Exiting..."
    /\ exit_status' = 1
    /\ pc' = "Cancelled"
    /\ UNCHANGED <<performers_root_directories, return_full_path, fs, callee, root_idx,
                   performers_paths, subfolders_log, performers_dict, user_input,
                   result, exception>>

\* prompt() raises EOFError (end of input): no except clause matches
EndOfInput ==
    /\ pc = "Prompting"
    /\ exception' = "EOFError"
    /\ pc' = "Uncaught"
    /\ UNCHANGED <<performers_root_directories, return_full_path, fs, callee, root_idx,
                   performers_paths, subfolders_log, performers_dict, user_input,
                   printed, result, exit_status>>

\* while the prompt waits, a scanned performer directory is removed
RemoveDir ==
    /\ pc = "Prompting"
    /\ \E r \in DOMAIN fs, n \in Volatile :
         /\ PathJoin(r, n) \in Range(performers_paths)
         /\ fs[r][n] = "dir"
         /\ fs' = [fs EXCEPT ![r][n] = "absent"]
    /\ UNCHANGED <<performers_root_directories, return_full_path, pc, callee, root_idx,
                   performers_paths, subfolders_log, performers_dict, user_input,
                   printed, result, exception, exit_status>>

\* while the prompt waits, a removed performer directory is created again
MakeDir ==
    /\ pc = "Prompting"
    /\ \E r \in DOMAIN fs, n \in Volatile :
         /\ fs[r][n] = "absent"
         /\ fs' = [fs EXCEPT ![r][n] = "dir"]
    /\ UNCHANGED <<performers_root_directories, return_full_path, pc, callee, root_idx,
                   performers_paths, subfolders_log, performers_dict, user_input,
                   printed, result, exception, exit_status>>

Next ==
    \/ ScanRoot
    \/ ChoosePerformer
    \/ Submit
    \/ Interrupt
    \/ EndOfInput
    \/ RemoveDir
    \/ MakeDir

Spec == Init /\ [][Next]_vars

----------------------------------------------------------------------------
(* The validator on its own: _is_valid_performer_name applied to a candidate *)

CharSamples ==
    {"a", "z", "m", "A", "Z", "0", "9", " ", ".", "(", ")", "_", "[", "]", "-",
     "@", "|", "{", "/", ":", "\t", "^", "~", "!"}

Lengths == {0, 1, 2} \cup ((performer_length_limit - 1)..(performer_length_limit + MaxFill))

\* one character repeated, or a run of "a" whose first or last character is replaced
Candidates ==
    {Fill(c, n) : c \in CharSamples, n \in Lengths}
    \cup {[Fill("a", n) EXCEPT ![n] = c] : c \in CharSamples, n \in Lengths \ {0}}
    \cup {[Fill("a", n) EXCEPT ![1] = c] : c \in CharSamples, n \in Lengths \ {0}}

InitV ==
    /\ performers_root_directories = <<>>
    /\ return_full_path = TRUE
    /\ fs = InitialFs
    /\ pc = "Validating"
    /\ callee = "_is_valid_performer_name"
    /\ root_idx = 1
    /\ performers_paths = <<>>
    /\ subfolders_log = <<>>
    /\ performers_dict = <<>>
    /\ user_input \in Candidates
    /\ printed = ""
    /\ result = NoResult
    /\ exception = "none"
    /\ exit_status = 0

\* _is_valid_performer_name(user_input) is called and returns
ValidateName ==
    /\ pc = "Validating"
    /\ LET valid == IsValidPerformerName(user_input)
       IN  /\ result' = [kind |-> "bool", value |-> valid.ok]
           /\ printed' = valid.printed
    /\ pc' = "Validated"
    /\ UNCHANGED <<performers_root_directories, return_full_path, fs, callee, root_idx,
                   performers_paths, subfolders_log, performers_dict, user_input,
                   exception, exit_status>>

NextV == ValidateName

SpecV == InitV /\ [][NextV]_vars

----------------------------------------------------------------------------
(* Claims *)

AsciiPrintable ==
    <<" ", "!", "\"", "#", "$", "%", "&", "'", "(", ")", "*", "+", ",", "-", ".", "/",
      "0", "1", "2", "3", "4", "5", "6", "7", "8", "9", ":", ";", "<", "=", ">", "?",
      "@", "A", "B", "C", "D", "E", "F", "G", "H", "I", "J", "K", "L", "M", "N", "O",
      "P", "Q", "R", "S", "T", "U", "V", "W", "X", "Y", "Z", "[", "<backslash>", "]", "^", "_",
      "<backtick>", "a", "b", "c", "d", "e", "f", "g", "h", "i", "j", "k", "l", "m", "n", "o",
      "p", "q", "r", "s", "t", "u", "v", "w", "x", "y", "z", "{", "|", "}", "~">>

\* the ASCII code of a character (the control characters of CharSamples included)
CodePoint(c) ==
    IF c = "\t" THEN 9
    ELSE 31 + (CHOOSE i \in 1..Len(AsciiPrintable) : AsciiPrintable[i] = c)

InWhitelist(c) ==
    LET n == CodePoint(c)
    IN  \/ (65 <= n /\ n <= 90)
        \/ (97 <= n /\ n <= 122)
        \/ (48 <= n /\ n <= 57)
        \/ c \in {" ", ".", "(", ")", "_", "[", "]", "-"}

Roots == performers_root_directories

IsValidName(t) == t # <<>> /\ (\A i \in 1..Len(t) : InWhitelist(t[i])) /\ Len(t) <= 100

ListingFails(r) == RootListing(r) \in {"PermissionError", "OSError"}
Readable(r) == RootStat(r) = "dir" /\ RootListing(r) = "ok"

\* C1: a root that is not a directory never makes get_performer_paths raise: it
\* contributes an empty list and the scan goes on with the remaining roots.
C1_NotADirectoryRootIsSkipped ==
    /\ ~(callee = "get_performer_paths" /\ pc = "Uncaught")
    /\ \A i \in 1..Len(subfolders_log) :
         RootStat(Roots[i]) # "dir" => subfolders_log[i] = <<>>

\* C2: a root whose listing fails with PermissionError or another OSError yields an
\* empty list, no exception leaves get_performer_paths at that root, and the
\* directories of every readable root are collected all the same.
C2_ListingFailureIsTolerated ==
    /\ \A i \in 1..Len(subfolders_log) :
         ListingFails(Roots[i]) => subfolders_log[i] = <<>>
    /\ (callee = "get_performer_paths" /\ pc = "Uncaught") => ~ListingFails(Roots[root_idx])
    /\ ((callee = "choose_performer" /\ \E i \in 1..Len(Roots) : ListingFails(Roots[i]))
          => \A i \in 1..Len(Roots) : \A n \in EntryNames :
                (Readable(Roots[i]) /\ InitialFs[Roots[i]][n] = "dir")
                   => (ParseParts(Roots[i]) \o <<n>>) \in Range(performers_paths))

C2_Witness ==
    /\ pc = "Prompting"
    /\ \E i, j, k \in 1..Len(Roots) :
         /\ i < j /\ j < k
         /\ Readable(Roots[i]) /\ ListingFails(Roots[j]) /\ Readable(Roots[k])
         /\ subfolders_log[j] = <<>>
         /\ subfolders_log[i] # <<>> /\ subfolders_log[k] # <<>>

\* C3: _is_valid_performer_name accepts exactly the non-empty texts of at most 100
\* characters, each an ASCII letter, a digit, a space or one of . ( ) _ [ ] -
C3_ValidIffWhitelistedAndShort ==
    pc = "Validated" => (result.value <=> IsValidName(user_input))

C3_Witness ==
    /\ pc = "Validated"
    /\ Len(user_input) = 100
    /\ result.value = TRUE

\* C4: an accepted selection returns the path root/name when return_full_path is
\* set, and otherwise the base name, which is the trimmed input.
C4_AcceptedReturnsPathOrName ==
    pc = "Accepted" =>
        /\ user_input \in DOMAIN performers_dict
        /\ IF return_full_path
           THEN /\ result.kind = "Path"
                /\ StrOfPath(result.value) = performers_dict[user_input]
                /\ \E i \in 1..Len(Roots) : result.value = ParseParts(Roots[i]) \o <<user_input>>
           ELSE /\ result.kind = "str"
                /\ result.value = user_input

C4_Witness == pc = "Accepted" /\ ~return_full_path /\ result.value = Sam

\* C5: a submission that passes validation but is no key of the dict prints
\* "Invalid choice" and leaves the selector prompting, with nothing returned.
C5_UnknownNameReprompts ==
    [][(Submit /\ IsValidName(user_input') /\ user_input' \notin DOMAIN performers_dict)
         => /\ pc' = "Prompting"
            /\ printed' = "Error: Invalid choice. Please choose a valid performer."
            /\ result' = NoResult]_vars

C5_Witness ==
    /\ pc = "Prompting"
    /\ user_input = Zed
    /\ printed = "Error: Invalid choice. Please choose a valid performer."

\* C6: a submission of a valid key whose path is no directory at that moment prints
\* "does not exist" and leaves the selector prompting; whenever the path is a
\* directory at the moment of the submission it is accepted.
C6_StaleDirectoryReprompts ==
    [][(Submit /\ IsValidName(user_input') /\ user_input' \in DOMAIN performers_dict)
         => IF KindOf(fs, ParseParts(performers_dict[user_input'])) \in {"dir", "link"}
            THEN pc' = "Accepted"
            ELSE /\ pc' = "Prompting"
                 /\ printed' = "Error: The selected performer directory does not exist."
                 /\ result' = NoResult]_vars

C6_Witness ==
    /\ pc = "Prompting"
    /\ user_input = Sam
    /\ printed = "Error: The selected performer directory does not exist."

\* the last root, in the configured order, whose listing returned the name
LastRootWith(name) ==
    CHOOSE k \in 1..Len(subfolders_log) :
        /\ name \in Range(subfolders_log[k])
        /\ \A j \in (k + 1)..Len(subfolders_log) : name \notin Range(subfolders_log[j])

ScannedNames == UNION {Range(subfolders_log[k]) : k \in 1..Len(subfolders_log)}

\* C7: the dict has one key per scanned name, mapped to the path under the last
\* root that has the name; selecting the name returns that root's path.
C7_LastRootWins ==
    callee = "choose_performer" =>
        /\ DOMAIN performers_dict = ScannedNames
        /\ \A name \in ScannedNames :
             performers_dict[name] = Roots[LastRootWith(name)] \o <<"/">> \o name
        /\ (pc = "Accepted" /\ return_full_path)
             => result.value = ParseParts(Roots[LastRootWith(user_input)]) \o <<user_input>>

C7_Witness ==
    /\ pc = "Accepted"
    /\ return_full_path
    /\ \E i, j \in 1..Len(Roots) :
         /\ i < j
         /\ user_input \in Range(subfolders_log[i])
         /\ user_input \in Range(subfolders_log[j])

\* the entries of the roots from the i-th on, as the listings returned them
RECURSIVE EntriesFrom(_)
EntriesFrom(i) ==
    IF i > Len(subfolders_log) THEN <<>>
    ELSE [k \in 1..Len(subfolders_log[i]) |-> ParseParts(Roots[i]) \o <<subfolders_log[i][k]>>]
         \o EntriesFrom(i + 1)

\* C8: get_performer_paths returns, root after root in the configured order, one
\* entry root/name per name the listing of the root returned, duplicates kept.
C8_FlatInRootOrder ==
    /\ performers_paths = EntriesFrom(1)
    /\ callee = "choose_performer" => Len(subfolders_log) = Len(Roots)

C8_Witness ==
    /\ callee = "choose_performer"
    /\ \E i, j \in 1..Len(performers_paths) :
         /\ i < j
         /\ PathName(performers_paths[i]) = PathName(performers_paths[j])
         /\ PathParent(performers_paths[i]) = ParseParts(R1)
         /\ PathParent(performers_paths[j]) = ParseParts(R2)

\* C9: the loop of choose_performer ends only by returning a value or by the
\* interrupt, which exits with status 1; nothing else ends it or escapes uncaught.
C9_LoopEndsAcceptedOrCancelled ==
    callee = "choose_performer" =>
        /\ pc \in {"Prompting", "Accepted", "Cancelled"}
        /\ pc = "Cancelled" => exit_status = 1

\* C10: a value is returned only for a valid trimmed input that is a key whose path
\* is a directory, so no entry with an invalid name is ever returned; and when no
\* scanned entry has a valid name the loop can end only by the interrupt.
C10_OnlyValidNamesAccepted ==
    /\ pc = "Accepted" =>
         /\ IsValidName(user_input)
         /\ user_input \in DOMAIN performers_dict
         /\ KindOf(fs, ParseParts(performers_dict[user_input])) \in {"dir", "link"}
    /\ (callee = "choose_performer" /\ \A n \in ScannedNames : ~IsValidName(n))
         => pc \in {"Prompting", "Cancelled"}

====
